---------------------------- MODULE Spec2Model ----------------------------
(***************************************************************************)
(* A model of app.py (Cinemateket print program).                          *)
(*                                                                         *)
(* Text is modelled as a sequence of one-character strings, so that the    *)
(* string operations of the code (strip, lower, comparison by code point,  *)
(* list.sort on strings) are computed as the code computes them.           *)
(*                                                                         *)
(* Four specifications share the variables:                                *)
(*   Spec          the /program route (lines 394-495), fed by              *)
(*                 parse_calendar (285-343) and fetch_item_details         *)
(*   SpecSoup      get_soup (75-91)                                        *)
(*   SpecTitle     extract_title (135-184)                                 *)
(*   SpecRegistry  build_series_registry (207-283)                         *)
(***************************************************************************)
EXTENDS Integers, Sequences, FiniteSets

VARIABLES
    \* ---- /program -----------------------------------------------------
    pc,          \* position in program(): "start", "days", "entries", "done"
    args,        \* request.args: [mode, from, to], a missing key is NoneV
    today,       \* what today_iso() returns at this moment
    today0,      \* what today_iso() returned when the request arrived
    ticks,       \* midnights passed since the request arrived
    cards,       \* the item cards of the upstream "Alle film" page
    by_href,     \* first result of build_series_registry()
    mode, d_from, d_to,   \* locals of program()
    days,        \* result of parse_calendar()
    di, ei,      \* loop positions: day index, entry index
    series_map,  \* dict name -> group, in insertion order
    fetched,     \* number of fetch_item_details(href) calls, per href
    failed,      \* hrefs whose fetch_item_details raised
    status,      \* HTTP status of the response, 0 while running
    out_series,  \* "series" of the JSON body
    \* ---- get_soup -----------------------------------------------------
    s_pc, s_i, s_last_text, s_log, s_result,
    \* ---- extract_title ------------------------------------------------
    t_pc, t_doc, t_url, t_result,
    \* ---- build_series_registry ----------------------------------------
    r_pc, r_todo, r_seen, r_by_href, r_events, r_path

progVars  == <<pc, args, today, today0, ticks, cards, by_href, mode, d_from,
               d_to, days, di, ei, series_map, fetched, failed, status,
               out_series>>
soupVars  == <<s_pc, s_i, s_last_text, s_log, s_result>>
titleVars == <<t_pc, t_doc, t_url, t_result>>
regVars   == <<r_pc, r_todo, r_seen, r_by_href, r_events, r_path>>
vars      == <<progVars, soupVars, titleVars, regVars>>

-----------------------------------------------------------------------------
(* Text                                                                    *)

\* The characters used, in code point order (Python compares str by code point).
Alphabet ==
    <<" ", "-", "0", "1", "2", "3", "4", "5", "6", "7", "8", "9", ":",
      "A", "B", "C", "D", "E", "F", "G", "H", "I", "J", "K", "L", "M",
      "N", "O", "P", "Q", "R", "S", "T", "U", "V", "W", "X", "Y", "Z", "_",
      "a", "b", "c", "d", "e", "f", "g", "h", "i", "j", "k", "l", "m",
      "n", "o", "p", "q", "r", "s", "t", "u", "v", "w", "x", "y", "z">>

Chars == {Alphabet[i] : i \in 1..Len(Alphabet)}

Ord == [c \in Chars |-> CHOOSE i \in 1..Len(Alphabet) : Alphabet[i] = c]

DigitChars == {"0", "1", "2", "3", "4", "5", "6", "7", "8", "9"}

DigitChar(n) == Alphabet[3 + n]

DigitVal(c) == Ord[c] - 3

\* a < b for Python str
RECURSIVE StrLess(_, _)
StrLess(a, b) ==
    IF a = <<>> THEN b # <<>>
    ELSE IF b = <<>> THEN FALSE
    ELSE IF a[1] = b[1] THEN StrLess(Tail(a), Tail(b))
    ELSE Ord[a[1]] < Ord[b[1]]

StrLeq(a, b) == a = b \/ StrLess(a, b)

\* a < b for Python tuples of str
RECURSIVE KeyLess(_, _)
KeyLess(k1, k2) ==
    IF k1 = <<>> THEN k2 # <<>>
    ELSE IF k2 = <<>> THEN FALSE
    ELSE IF k1[1] = k2[1] THEN KeyLess(Tail(k1), Tail(k2))
    ELSE StrLess(k1[1], k2[1])

\* list.sort(key=...) : stable, ascending. s is a sequence of [k |-> key, v |-> value].
RECURSIVE InsertKeyed(_, _)
InsertKeyed(x, s) ==
    IF s = <<>> THEN <<x>>
    ELSE IF KeyLess(x.k, s[1].k) THEN <<x>> \o s
    ELSE <<s[1]>> \o InsertKeyed(x, Tail(s))

RECURSIVE SortKeyed(_)
SortKeyed(s) ==
    IF s = <<>> THEN <<>>
    ELSE InsertKeyed(s[Len(s)], SortKeyed(SubSeq(s, 1, Len(s) - 1)))

Values(s) == [i \in 1..Len(s) |-> s[i].v]

\* sorted(list of str)
SortStrings(s) == Values(SortKeyed([i \in 1..Len(s) |-> [k |-> <<s[i]>>, v |-> s[i]]]))

Range(s) == {s[i] : i \in 1..Len(s)}

\* list(set(s)) in some order; the order does not matter where it is used (it is sorted)
RECURSIVE SetToSeq(_)
SetToSeq(S) ==
    IF S = {} THEN <<>>
    ELSE LET x == CHOOSE y \in S : TRUE IN <<x>> \o SetToSeq(S \ {x})

\* n as decimal digits, zero padded to width w (format spec 0wd)
RECURSIVE Digits(_, _)
Digits(n, w) ==
    IF w = 0 THEN <<>> ELSE Digits(n \div 10, w - 1) \o <<DigitChar(n % 10)>>

\* int(s) for a string of digits
RECURSIVE ParseNat(_)
ParseNat(s) ==
    IF s = <<>> THEN 0
    ELSE 10 * ParseNat(SubSeq(s, 1, Len(s) - 1)) + DigitVal(s[Len(s)])

AllDigits(s) == \A i \in 1..Len(s) : s[i] \in DigitChars

-----------------------------------------------------------------------------
(* Dates                                                                   *)

\* datetime.now().year
current_year == 2025

IsLeap(y) == (y % 4 = 0) /\ ((y % 100 # 0) \/ (y % 400 = 0))

DaysInMonth(y, m) ==
    IF m = 2 THEN (IF IsLeap(y) THEN 29 ELSE 28)
    ELSE IF m \in {4, 6, 9, 11} THEN 30 ELSE 31

\* date(y, m, d) does not raise ValueError
ValidDate(y, m, d) == m \in 1..12 /\ d >= 1 /\ d <= DaysInMonth(y, m)

\* date(y, m, d).isoformat()
IsoFormat(y, m, d) == Digits(y, 4) \o <<"-">> \o Digits(m, 2) \o <<"-">> \o Digits(d, 2)

RECURSIVE DaysBeforeMonth(_, _)
DaysBeforeMonth(y, m) ==
    IF m = 1 THEN 0 ELSE DaysBeforeMonth(y, m - 1) + DaysInMonth(y, m - 1)

\* date(y, m, d).toordinal()
ToOrdinal(y, m, d) ==
    365 * (y - 1) + ((y - 1) \div 4) - ((y - 1) \div 100) + ((y - 1) \div 400)
        + DaysBeforeMonth(y, m) + d

\* date(y, m, d).weekday(), Monday = 0
Weekday(y, m, d) == (ToOrdinal(y, m, d) + 6) % 7


\* the day after [y, m, d]
NextDate(t) ==
    IF t.d < DaysInMonth(t.y, t.m) THEN [t EXCEPT !.d = t.d + 1]
    ELSE IF t.m < 12 THEN [t EXCEPT !.m = t.m + 1, !.d = 1]
    ELSE [y |-> t.y + 1, m |-> 1, d |-> 1]

\* date.today().isoformat(), for the value of the clock held in today
today_iso(t) == IsoFormat(t.y, t.m, t.d)

MONTHS ==
    [n \in {"januar", "februar", "marts", "april", "maj", "juni", "juli", "august",
            "september", "oktober", "november", "december"} |->
       CASE n = "januar" -> 1 [] n = "februar" -> 2 [] n = "marts" -> 3
         [] n = "april" -> 4 [] n = "maj" -> 5 [] n = "juni" -> 6
         [] n = "juli" -> 7 [] n = "august" -> 8 [] n = "september" -> 9
         [] n = "oktober" -> 10 [] n = "november" -> 11 [] n = "december" -> 12]

MONTHS_DA ==
    [n \in {"jan", "januar", "feb", "februar", "mar", "marts", "apr", "april", "maj",
            "jun", "juni", "jul", "juli", "aug", "august", "sep", "september",
            "okt", "oktober", "nov", "november", "dec", "december"} |->
       CASE n \in {"jan", "januar"} -> 1 [] n \in {"feb", "februar"} -> 2
         [] n \in {"mar", "marts"} -> 3 [] n \in {"apr", "april"} -> 4
         [] n = "maj" -> 5 [] n \in {"jun", "juni"} -> 6
         [] n \in {"jul", "juli"} -> 7 [] n \in {"aug", "august"} -> 8
         [] n \in {"sep", "september"} -> 9 [] n \in {"okt", "oktober"} -> 10
         [] n \in {"nov", "november"} -> 11 [] n \in {"dec", "december"} -> 12]

\* (the o-slash of the last two names is written o)
WEEKDAYS == <<"Mandag", "Tirsdag", "Onsdag", "Torsdag", "Fredag", "Lordag", "Sondag">>

MonthNames == <<"januar", "februar", "marts", "april", "maj", "juni", "juli", "august",
                "september", "oktober", "november", "december">>

\* Optional values: None is <<>>, a present value x is <<x>>.
NoneV == <<>>
Some(x) == <<x>>
Get(opt, default) == IF opt = NoneV THEN default ELSE opt[1]

\* A day label is the three fields that the f-string of line 341 prints and that
\* DAY_RE (line 53) reads back: weekday name, day number, month word.
\* iso_from_label(label, year): None unless the weekday is one DAY_RE knows, the
\* month word is a key of MONTHS and the date exists.
iso_from_label(label, year) ==
    IF label.wd \notin Range(WEEKDAYS) \/ label.d \notin 0..99 THEN NoneV
    ELSE IF label.mon \notin DOMAIN MONTHS THEN NoneV
    ELSE IF ~ValidDate(year, MONTHS[label.mon], label.d) THEN NoneV
    ELSE Some(IsoFormat(year, MONTHS[label.mon], label.d))

-----------------------------------------------------------------------------
(* URLs                                                                    *)

ALLOWED_HOSTS == {"www.dfi.dk", "dfi.dk"}

\* allowed(url): scheme, host and the path prefix "/cinemateket/"
allowed(url) ==
    /\ url.scheme \in {"http", "https"}
    /\ url.netloc \in ALLOWED_HOSTS
    /\ Len(url.path) >= 2 /\ url.path[1] = "cinemateket"

FilmUrl(host, slug) ==
    [scheme |-> "https", netloc |-> host,
     path |-> <<"cinemateket", "biograf", "alle-film", "film", slug>>]

hStalker == FilmUrl("www.dfi.dk", "stalker")
hSolaris == FilmUrl("www.dfi.dk", "solaris")
hForeign == FilmUrl("example.org", "stalker")

-----------------------------------------------------------------------------
(* parse_calendar                                                          *)

\* A card of the listing page: the href of its anchor and the date fragments of
\* its date text (what re.split of line 300 yields), each a day number and a
\* month word.
\* parse_dates_chunk(text), lines 298-313
RECURSIVE parse_dates_chunk(_)
parse_dates_chunk(parts) ==
    IF parts = <<>> THEN <<>>
    ELSE LET p == parts[1]
             rest == parse_dates_chunk(Tail(parts))
         IN IF p.mon \notin DOMAIN MONTHS_DA THEN rest
            ELSE IF ~ValidDate(current_year, MONTHS_DA[p.mon], p.d) THEN rest
            ELSE <<IsoFormat(current_year, MONTHS_DA[p.mon], p.d)>> \o rest

\* lines 315-334: the (iso, entry) pairs in the order they are appended to day_map
RECURSIVE CardEntries(_)
CardEntries(cs) ==
    IF cs = <<>> THEN <<>>
    ELSE LET c == cs[1]
             isos == parse_dates_chunk(c.parts)
         IN (IF ~allowed(c.href) THEN <<>>
             ELSE [i \in 1..Len(isos) |->
                     [iso |-> isos[i],
                      entry |-> [time |-> <<"0", "0", ":", "0", "0">>, href |-> c.href]]])
            \o CardEntries(Tail(cs))

\* the elements of s that satisfy the test, in order
RECURSIVE EntriesOf(_, _)
EntriesOf(pairs, iso) ==
    IF pairs = <<>> THEN <<>>
    ELSE (IF pairs[1].iso = iso THEN <<pairs[1].entry>> ELSE <<>>)
         \o EntriesOf(Tail(pairs), iso)

\* lines 336-343: one block per key of day_map, sorted by the iso string; the
\* label is printed from the parsed iso string
LabelOf(iso) ==
    LET y == ParseNat(SubSeq(iso, 1, 4))
        m == ParseNat(SubSeq(iso, 6, 7))
        d == ParseNat(SubSeq(iso, 9, 10))
    IN [wd |-> WEEKDAYS[Weekday(y, m, d) + 1], d |-> d, mon |-> MonthNames[m]]

parse_calendar(cs) ==
    LET pairs == CardEntries(cs)
        keys == SortStrings(SetToSeq({pairs[i].iso : i \in 1..Len(pairs)}))
    IN [i \in 1..Len(keys) |->
          [label |-> LabelOf(keys[i]), entries |-> EntriesOf(pairs, keys[i])]]

-----------------------------------------------------------------------------
(* fetch_item_details                                                      *)

RECURSIVE LStrip(_)
LStrip(s) == IF s # <<>> /\ s[1] = " " THEN LStrip(Tail(s)) ELSE s

RECURSIVE RStrip(_)
RStrip(s) ==
    IF s # <<>> /\ s[Len(s)] = " " THEN RStrip(SubSeq(s, 1, Len(s) - 1)) ELSE s

\* str.strip()
Strip(s) == RStrip(LStrip(s))

\* re.match(r"^\d{1,2}:\d{2}$", st), line 370
TimeMatch(st) ==
    /\ Len(st) \in {4, 5}
    /\ st[Len(st) - 2] = ":"
    /\ AllDigits(SubSeq(st, 1, Len(st) - 3))
    /\ AllDigits(SubSeq(st, Len(st) - 1, Len(st)))

\* lines 366-375: the times of a detail page whose text nodes with a time in
\* them are nodes
item_times(nodes) ==
    SortStrings(SetToSeq({st \in {Strip(nodes[i]) : i \in 1..Len(nodes)} : TimeMatch(st)}))


-----------------------------------------------------------------------------
(* /program                                                                *)

PLACEHOLDER == <<"0", "0", ":", "0", "0">>

NO_SERIES == <<"U", "d", "e", "n", " ", "f", "o", "r", " ", "s", "e", "r", "i", "e">>

LAST_KEY == <<"9", "9", "9", "9", "-", "9", "9", "-", "9", "9", " ", "9", "9", ":", "9", "9">>

\* "not x" for an optional string: None or ""
Falsy(opt) == opt = NoneV \/ opt[1] = <<>>

\* the range filter without its lower bound
InScopeNoLower(m, iso, td, f, t) ==
    IF m = "all" THEN ~StrLess(iso, td)
    ELSE StrLeq(iso, t)

\* lines 415-422, once both bounds are known to be present: does the day survive?
InScope(m, iso, td, f, t) ==
    IF m = "all" THEN ~StrLess(iso, td)
    ELSE StrLeq(f, iso) /\ StrLeq(iso, t)

\* f"{iso} {tm}"
DateTime(iso, tm) == iso \o <<" ">> \o tm

\* lines 456-459 and 461-463: append each string unless it is in the list
RECURSIVE AppendNew(_, _)
AppendNew(dates, new) ==
    IF new = <<>> THEN dates
    ELSE AppendNew(IF new[1] \in Range(dates) THEN dates ELSE Append(dates, new[1]),
                   Tail(new))

\* the placeholder recorded as it stands, whatever the times of the item
FoldDatesLiteral(item, iso, tm) == AppendNew(item.dates, <<DateTime(iso, tm)>>)

\* the else branch of line 460 lost
FoldDatesNoElse(item, iso, tm) ==
    IF item.times # <<>> /\ tm = PLACEHOLDER
    THEN AppendNew(item.dates, [i \in 1..Len(item.times) |-> DateTime(iso, item.times[i])])
    ELSE item.dates

\* lines 454-463: the dates of the item after one calendar entry is folded in
FoldDates(item, iso, tm) ==
    IF item.times # <<>> /\ tm = PLACEHOLDER
    THEN AppendNew(item.dates, [i \in 1..Len(item.times) |-> DateTime(iso, item.times[i])])
    ELSE AppendNew(item.dates, <<DateTime(iso, tm)>>)

\* no memo: every entry fetches
NeedsFetchAlways(bucket, href) == TRUE

\* line 438: href not in bucket
NeedsFetch(bucket, href) == \A i \in 1..Len(bucket) : bucket[i].url # href

\* bucket[href] = item on a dict kept as a sequence in insertion order
PutItem(bucket, item) ==
    IF \E i \in 1..Len(bucket) : bucket[i].url = item.url
    THEN [i \in 1..Len(bucket) |-> IF bucket[i].url = item.url THEN item ELSE bucket[i]]
    ELSE Append(bucket, item)

\* series_map[name] = group, likewise
PutGroup(sm, g) ==
    IF \E i \in 1..Len(sm) : sm[i].name = g.name
    THEN [i \in 1..Len(sm) |-> IF sm[i].name = g.name THEN g ELSE sm[i]]
    ELSE Append(sm, g)

\* bucket[href]
GetItem(bucket, href) == bucket[CHOOSE i \in 1..Len(bucket) : bucket[i].url = href]

\* series_map[name]
GetGroup(sm, name) == sm[CHOOSE i \in 1..Len(sm) : sm[i].name = name]

\* lines 465-485. Items carry url, times and dates; title, image and synopsis
\* are copied through and play no part in the order.
SortedItems(g) ==
    LET its == [i \in 1..Len(g.items) |->
                  [g.items[i] EXCEPT !.dates = SortStrings(g.items[i].dates)]]
    IN Values(SortKeyed([i \in 1..Len(its) |->
          [k |-> <<IF its[i].dates # <<>> THEN its[i].dates[1] ELSE LAST_KEY>>,
           v |-> its[i]]]))

RECURSIVE DropEmpty(_)
DropEmpty(gs) ==
    IF gs = <<>> THEN <<>>
    ELSE (IF gs[1].items = <<>> THEN <<>> ELSE <<gs[1]>>) \o DropEmpty(Tail(gs))

BuildOutSeries(sm) ==
    LET gs == DropEmpty([i \in 1..Len(sm) |-> [name |-> sm[i].name, items |-> SortedItems(sm[i])]])
    IN Values(SortKeyed([i \in 1..Len(gs) |->
          [k |-> <<gs[i].items[1].dates[1], gs[i].name>>, v |-> gs[i]]]))

\* first_dt raises IndexError when the first item of a group has no date
FirstDtRaises(sm) ==
    \E i \in 1..Len(sm) : sm[i].items # <<>> /\ SortedItems(sm[i])[1].dates = <<>>

\* ---- the inputs ---------------------------------------------------------
MaxCards == 2
MaxTicks == 1

D(day, mon) == [d |-> day, mon |-> mon]

\* date texts of a card: a past day beside an unknown month word; today and
\* tomorrow; today named twice around a day that does not exist
TextPast  == <<D(9, "jun"), D(12, "foo")>>
TextTwo   == <<D(10, "juni"), D(11, "jun")>>
TextTwice == <<D(10, "jun"), D(31, "juni"), D(10, "juni")>>

CardSet ==
    { [href |-> hStalker, parts |-> TextPast],
      [href |-> hStalker, parts |-> TextTwo],
      [href |-> hStalker, parts |-> TextTwice],
      [href |-> hSolaris, parts |-> TextPast],
      [href |-> hSolaris, parts |-> TextTwo],
      [href |-> hForeign, parts |-> TextTwo] }

RECURSIVE SeqsUpTo(_, _)
SeqsUpTo(S, n) ==
    IF n = 0 THEN {<<>>}
    ELSE LET shorter == SeqsUpTo(S, n - 1)
         IN shorter \cup {Append(s, x) : s \in {t \in shorter : Len(t) = n - 1}, x \in S}

Iso(m, d) == IsoFormat(current_year, m, d)

ArgSet ==
    { [mode |-> NoneV,         from |-> NoneV,             to |-> NoneV],
      [mode |-> Some("range"), from |-> Some(Iso(6, 9)),   to |-> Some(Iso(6, 10))],
      [mode |-> Some("range"), from |-> Some(Iso(6, 10)),  to |-> Some(Iso(6, 11))],
      [mode |-> Some("range"), from |-> NoneV,             to |-> Some(Iso(6, 11))],
      [mode |-> Some("range"), from |-> Some(Iso(6, 9)),   to |-> NoneV],
      [mode |-> Some("range"), from |-> Some(<<>>),        to |-> Some(Iso(6, 11))],
      [mode |-> Some("range"), from |-> Some(Iso(6, 9)),   to |-> Some(<<>>)] }

sTarkovskij == <<"T", "a", "r", "k", "o", "v", "s", "k", "i", "j">>
sBergman    == <<"B", "e", "r", "g", "m", "a", "n">>

\* registries: item href -> series name
Registries ==
    { [h \in {hStalker} |-> sTarkovskij],
      [h \in {hStalker, hSolaris} |-> sBergman] }

\* detail pages: the text nodes in which line 368 finds a time
DetailPages ==
    { <<>>,
      << <<"9", ":", "3", "0">>, <<"1", "9", ":", "3", "0">> >>,
      << <<"1", "9", ":", "3", "0">>, <<"0", "0", ":", "0", "0">>, <<"1", "9", ":", "3", "0">> >>,
      << <<" ", "1", "9", ":", "3", "0">>, <<"k", "l", " ", "2", "0", ":", "1", "5">> >> }

Today0 == [y |-> current_year, m |-> 6, d |-> 10]

SoupIdle == /\ s_pc = "idle" /\ s_i = 0 /\ s_last_text = "" /\ s_log = <<>> /\ s_result = ""
TitleIdle == /\ t_pc = "idle" /\ t_doc = <<>> /\ t_url = <<>> /\ t_result = <<>>
RegIdle ==
    /\ r_pc = "idle" /\ r_todo = <<>> /\ r_seen = {}
    /\ r_by_href = <<>> /\ r_events = <<>> /\ r_path = "none"

Init ==
    /\ pc = "start"
    /\ args \in ArgSet
    /\ today = Today0 /\ today0 = Today0 /\ ticks = 0
    /\ cards \in SeqsUpTo(CardSet, MaxCards)
    /\ by_href \in Registries
    /\ mode = "" /\ d_from = NoneV /\ d_to = NoneV
    /\ days = <<>> /\ di = 0 /\ ei = 0
    /\ series_map = <<>>
    /\ fetched = [h \in {hStalker, hSolaris} |-> 0]
    /\ failed = {}
    /\ status = 0
    /\ out_series = <<>>
    /\ SoupIdle /\ TitleIdle /\ RegIdle

\* lines 401-407
Begin ==
    /\ pc = "start"
    /\ mode' = Get(args.mode, "all")
    /\ d_from' = Some(Get(args.from, today_iso(today)))
    /\ d_to' = args.to
    /\ days' = parse_calendar(cards)
    /\ di' = 1 /\ ei' = 0
    /\ pc' = "days"
    /\ UNCHANGED <<args, today, today0, ticks, cards, by_href, series_map, fetched,
                   failed, status, out_series>>
    /\ UNCHANGED <<soupVars, titleVars, regVars>>

\* lines 410-422: the head of one iteration of the loop over the days
DayStep ==
    /\ pc = "days" /\ di <= Len(days)
    /\ LET iso == iso_from_label(days[di].label, current_year)
       IN IF iso = NoneV
          THEN /\ di' = di + 1 /\ UNCHANGED <<pc, ei, status>>
          ELSE IF mode # "all" /\ (Falsy(d_from) \/ Falsy(d_to))
          THEN /\ status' = 400 /\ pc' = "done" /\ UNCHANGED <<di, ei>>
          ELSE IF mode = "all" /\ ~InScope(mode, iso[1], today_iso(today), <<>>, <<>>)
          THEN /\ di' = di + 1 /\ UNCHANGED <<pc, ei, status>>
          ELSE IF mode # "all" /\ ~InScope(mode, iso[1], today_iso(today), d_from[1], d_to[1])
          THEN /\ di' = di + 1 /\ UNCHANGED <<pc, ei, status>>
          ELSE IF days[di].entries = <<>>
          THEN /\ di' = di + 1 /\ UNCHANGED <<pc, ei, status>>
          ELSE /\ pc' = "entries" /\ ei' = 1 /\ UNCHANGED <<di, status>>
    /\ UNCHANGED <<args, today, today0, ticks, cards, by_href, mode, d_from, d_to,
                   days, series_map, fetched, failed, out_series>>
    /\ UNCHANGED <<soupVars, titleVars, regVars>>

\* lines 429-463, for an entry whose href is allowed; det is the result of
\* fetch_item_details, or NoneV when it raised
Join(sm, e, iso, det) ==
    LET sname == IF e.href \in DOMAIN by_href THEN by_href[e.href] ELSE NO_SERIES
        sm1 == IF \E i \in 1..Len(sm) : sm[i].name = sname THEN sm
               ELSE Append(sm, [name |-> sname, items |-> <<>>])
        bucket == GetGroup(sm1, sname).items
        bucket1 == IF NeedsFetch(bucket, e.href)
                   THEN PutItem(bucket,
                                [url |-> e.href,
                                 times |-> IF det = NoneV THEN <<>> ELSE det[1],
                                 dates |-> <<>>])
                   ELSE bucket
        it == GetItem(bucket1, e.href)
        bucket2 == PutItem(bucket1, [it EXCEPT !.dates = FoldDates(it, iso, e.time)])
    IN PutGroup(sm1, [name |-> sname, items |-> bucket2])

BucketOf(sm, href) ==
    LET sname == IF href \in DOMAIN by_href THEN by_href[href] ELSE NO_SERIES
    IN IF \E i \in 1..Len(sm) : sm[i].name = sname
       THEN GetGroup(sm, sname).items ELSE <<>>

\* lines 424-463: one iteration of the loop over the entries of the day
EntryStep ==
    /\ pc = "entries" /\ ei <= Len(days[di].entries)
    /\ LET e == days[di].entries[ei]
           iso == iso_from_label(days[di].label, current_year)[1]
       IN IF ~allowed(e.href)
          THEN UNCHANGED <<series_map, fetched, failed>>
          ELSE IF NeedsFetch(BucketOf(series_map, e.href), e.href)
          THEN \E det \in {NoneV} \cup {Some(item_times(p)) : p \in DetailPages} :
                 /\ fetched' = [fetched EXCEPT ![e.href] = @ + 1]
                 /\ failed' = IF det = NoneV THEN failed \cup {e.href} ELSE failed
                 /\ series_map' = Join(series_map, e, iso, det)
          ELSE /\ series_map' = Join(series_map, e, iso, NoneV)
               /\ UNCHANGED <<fetched, failed>>
    /\ IF ei < Len(days[di].entries)
       THEN ei' = ei + 1 /\ UNCHANGED <<pc, di>>
       ELSE ei' = 0 /\ di' = di + 1 /\ pc' = "days"
    /\ UNCHANGED <<args, today, today0, ticks, cards, by_href, mode, d_from, d_to,
                   days, status, out_series>>
    /\ UNCHANGED <<soupVars, titleVars, regVars>>

\* lines 465-495
Finish ==
    /\ pc = "days" /\ di > Len(days)
    /\ IF FirstDtRaises(series_map)
       THEN status' = 500 /\ out_series' = <<>>
       ELSE status' = 200 /\ out_series' = BuildOutSeries(series_map)
    /\ pc' = "done"
    /\ UNCHANGED <<args, today, today0, ticks, cards, by_href, mode, d_from, d_to,
                   days, di, ei, series_map, fetched, failed>>
    /\ UNCHANGED <<soupVars, titleVars, regVars>>

\* midnight passes while the request is being served
Tick ==
    /\ pc \in {"days", "entries"} /\ ticks < MaxTicks
    /\ today' = NextDate(today)
    /\ ticks' = ticks + 1
    /\ UNCHANGED <<pc, args, today0, cards, by_href, mode, d_from, d_to, days, di, ei,
                   series_map, fetched, failed, status, out_series>>
    /\ UNCHANGED <<soupVars, titleVars, regVars>>

Next == Begin \/ DayStep \/ EntryStep \/ Finish \/ Tick

Spec == Init /\ [][Next]_vars


-----------------------------------------------------------------------------
(* Properties of /program                                                  *)

DatePart(s) == SubSeq(s, 1, 10)
TimePart(s) == SubSeq(s, 12, Len(s))

\* the calendar day an ISO date string names, as a number that grows with time
DateNum(iso) ==
    ParseNat(SubSeq(iso, 1, 4)) * 10000 + ParseNat(SubSeq(iso, 6, 7)) * 100
        + ParseNat(SubSeq(iso, 9, 10))

\* the minute of the day a time string names
Minutes(tm) ==
    ParseNat(SubSeq(tm, 1, Len(tm) - 3)) * 60 + ParseNat(SubSeq(tm, Len(tm) - 1, Len(tm)))

\* the moment a "date time" string names: the day, then the minute of the day
Moment(s) == <<DateNum(DatePart(s)), Minutes(TimePart(s))>>

Before(a, b) == a[1] < b[1] \/ (a[1] = b[1] /\ a[2] < b[2])

NotAfter(a, b) == a = b \/ Before(a, b)

Earliest(S) == CHOOSE x \in S : \A y \in S : NotAfter(x, y)

AllItems(gs) == UNION {Range(gs[i].items) : i \in 1..Len(gs)}

Responded200 == pc = "done" /\ status = 200

\* C1: a request with mode=range and 'from' or 'to' missing or empty is answered 400,
\* whatever the calendar holds.
C1_RangeWithoutBoundIs400 ==
    (pc = "done" /\ args.mode = Some("range") /\ (Falsy(args.from) \/ Falsy(args.to)))
        => status = 400

\* C2: in a 200 response the day of every date of every item is not before the
\* day the request arrived (mode "all"), or lies in [from, to] (mode "range").
C2_DatesInScope ==
    Responded200 =>
        \A it \in AllItems(out_series) : \A dt \in Range(it.dates) :
            IF mode = "all"
            THEN DateNum(DatePart(dt)) >= DateNum(today_iso(today0))
            ELSE /\ DateNum(d_from[1]) <= DateNum(DatePart(dt))
                 /\ DateNum(DatePart(dt)) <= DateNum(d_to[1])

\* range mode, a day of the calendar left out, an item with fanned-out times
C2_Witness ==
    /\ Responded200 /\ mode = "range"
    /\ \E it \in AllItems(out_series) :
         /\ it.times # <<>>
         /\ \E dt \in Range(it.dates) : TimePart(dt) # PLACEHOLDER
    /\ \E i \in 1..Len(days) :
         \A it \in AllItems(out_series) : \A dt \in Range(it.dates) :
            DatePart(dt) # iso_from_label(days[i].label, current_year)[1]

\* C3: within one run fetch_item_details is called at most once per href.
C3_FetchAtMostOnce == \A h \in DOMAIN fetched : fetched[h] <= 1

\* an href met on two days, fetched once, the other href in another series
C3_Witness ==
    /\ Responded200
    /\ \E it \in AllItems(out_series) :
         /\ fetched[it.url] = 1
         /\ Cardinality({DatePart(dt) : dt \in Range(it.dates)}) >= 2
    /\ Len(out_series) >= 2

\* the step that handles one calendar entry has just been taken
EntryHandled == pc = "entries" /\ (ei' # ei \/ pc' # pc)

CurEntry == days[di].entries[ei]
CurIso == iso_from_label(days[di].label, current_year)[1]
ItemIn(sm, href) == GetItem(BucketOf(sm, href), href)
DatesBefore(href) ==
    IF NeedsFetch(BucketOf(series_map, href), href) THEN {}
    ELSE Range(ItemIn(series_map, href).dates)

\* C5 as stated: for a placeholder entry of an item with times, every
\* "<date> <t>" is in the dates and "<date> 00:00" is not; for an item without
\* times exactly "<date> 00:00" is recorded.
C5_Original ==
    [][(EntryHandled /\ allowed(CurEntry.href) /\ CurEntry.time = PLACEHOLDER) =>
         LET it == ItemIn(series_map', CurEntry.href)
         IN IF it.times # <<>>
            THEN /\ \A i \in 1..Len(it.times) : DateTime(CurIso, it.times[i]) \in Range(it.dates)
                 /\ DateTime(CurIso, PLACEHOLDER) \notin Range(it.dates)
            ELSE /\ DateTime(CurIso, PLACEHOLDER) \in Range(it.dates)
                 /\ Range(it.dates) \ DatesBefore(CurEntry.href)
                        \subseteq {DateTime(CurIso, PLACEHOLDER)}]_vars

\* C5 amended: "<date> 00:00" is not recorded unless "00:00" is itself one of
\* the times of the item, and nothing but the fanned-out strings is added.
C5_FanOut ==
    [][(EntryHandled /\ allowed(CurEntry.href) /\ CurEntry.time = PLACEHOLDER) =>
         LET it == ItemIn(series_map', CurEntry.href)
         IN IF it.times # <<>>
            THEN /\ \A i \in 1..Len(it.times) : DateTime(CurIso, it.times[i]) \in Range(it.dates)
                 /\ PLACEHOLDER \notin Range(it.times)
                        => DateTime(CurIso, PLACEHOLDER) \notin Range(it.dates)
                 /\ Range(it.dates) \ DatesBefore(CurEntry.href)
                        \subseteq {DateTime(CurIso, it.times[i]) : i \in 1..Len(it.times)}
            ELSE /\ DateTime(CurIso, PLACEHOLDER) \in Range(it.dates)
                 /\ Range(it.dates) \ DatesBefore(CurEntry.href)
                        \subseteq {DateTime(CurIso, PLACEHOLDER)}]_vars

\* a placeholder entry fanned out over two times, none of them 00:00, and
\* another item that kept the placeholder
C5_Witness ==
    /\ \E it \in AllItems(series_map) :
         /\ Len(it.times) = 2 /\ PLACEHOLDER \notin Range(it.times)
         /\ Len(it.dates) >= 2
    /\ \E it \in AllItems(series_map) :
         it.times = <<>> /\ it.dates # <<>>

\* C6: in a 200 response the groups ascend by (earliest moment of the group,
\* name) and the items of a group ascend by their earliest moment.
EarliestOfItem(it) == Earliest({Moment(dt) : dt \in Range(it.dates)})
EarliestOfGroup(g) == Earliest({EarliestOfItem(it) : it \in Range(g.items)})

C7_DatesAscending ==
    Responded200 =>
        \A it \in AllItems(out_series) : \A i, j \in 1..Len(it.dates) :
            i < j => Before(Moment(it.dates[i]), Moment(it.dates[j]))

\* C10: every group has an item and every item a date, throughout the join and
\* in the response, and the sort keys never raise.
C10_NoEmptyGroupOrItem ==
    /\ \A g \in Range(series_map) :
         g.items # <<>> /\ \A it \in Range(g.items) : it.dates # <<>>
    /\ \A g \in Range(out_series) :
         g.items # <<>> /\ \A it \in Range(g.items) : it.dates # <<>>
    /\ status # 500
    /\ Responded200 => Len(out_series) = Len(series_map)

\* a response with an item whose detail fetch raised, beside one that did not
C10_Witness ==
    /\ Responded200
    /\ \E it \in AllItems(out_series) : it.url \in failed
    /\ \E it \in AllItems(out_series) : it.url \notin failed /\ it.times # <<>>


-----------------------------------------------------------------------------
(* get_soup                                                                *)

\* range(3), line 77
Attempts == 3

\* the loop ends on any status but 200
RetryableNot200(code) == code # 200

\* line 81
Retryable(code) == code \in {429, 500, 502, 503, 504}

\* _bs(html_text): the document parsed from the text (html_text or "")
Bs(text) == [parsed_from |-> text]

StatusCodes == {200, 404, 429, 500, 502, 503, 504}
Bodies == {"", "<a>", "<b>"}

\* what one session.get can do: a response, or requests.RequestException
Outcomes ==
    [kind : {"response"}, code : StatusCodes, text : Bodies]
        \cup {[kind |-> "error", code |-> 0, text |-> ""]}

ProgIdle ==
    /\ pc = "idle" /\ args = <<>> /\ today = Today0 /\ today0 = Today0 /\ ticks = 0
    /\ cards = <<>> /\ by_href = <<>> /\ mode = "" /\ d_from = NoneV /\ d_to = NoneV
    /\ days = <<>> /\ di = 0 /\ ei = 0 /\ series_map = <<>> /\ fetched = <<>>
    /\ failed = {} /\ status = 0 /\ out_series = <<>>

InitSoup ==
    /\ s_pc = "loop" /\ s_i = 0 /\ s_last_text = "" /\ s_log = <<>>
    /\ s_result = [returned |-> FALSE, doc |-> Bs("")]
    /\ ProgIdle /\ TitleIdle /\ RegIdle

\* lines 77-90: one pass through the loop body
SoupAttempt ==
    /\ s_pc = "loop" /\ s_i < Attempts
    /\ \E o \in Outcomes :
         /\ s_log' = Append(s_log, o)
         /\ IF o.kind = "error"
            THEN /\ s_i' = s_i + 1
                 /\ UNCHANGED <<s_pc, s_last_text, s_result>>
            ELSE /\ s_last_text' = o.text
                 /\ IF Retryable(o.code)
                    THEN s_i' = s_i + 1 /\ UNCHANGED <<s_pc, s_result>>
                    ELSE /\ s_result' = [returned |-> TRUE, doc |-> Bs(o.text)]
                         /\ s_pc' = "done"
                         /\ UNCHANGED s_i
    /\ UNCHANGED <<progVars, titleVars, regVars>>

\* line 91: the loop ran out
SoupExhausted ==
    /\ s_pc = "loop" /\ s_i >= Attempts
    /\ s_result' = [returned |-> TRUE, doc |-> Bs(s_last_text)]
    /\ s_pc' = "done"
    /\ UNCHANGED <<s_i, s_last_text, s_log>>
    /\ UNCHANGED <<progVars, titleVars, regVars>>

NextSoup == SoupAttempt \/ SoupExhausted

SpecSoup == InitSoup /\ [][NextSoup]_vars

\* the text of the last response in the log, "" when every attempt failed
RECURSIVE LastResponseText(_)
LastResponseText(log) ==
    IF log = <<>> THEN ""
    ELSE IF log[Len(log)].kind = "response" THEN log[Len(log)].text
    ELSE LastResponseText(SubSeq(log, 1, Len(log) - 1))

\* C4: get_soup makes at most 3 requests, makes another one only after a
\* response with status 429, 500, 502, 503 or 504 or after a transport error,
\* cannot get stuck before it returns, and returns the document of the last
\* response body it received.
C4_BoundedRetries ==
    /\ Len(s_log) <= 3
    /\ \A k \in 2..Len(s_log) :
         \/ s_log[k - 1].kind = "error"
         \/ s_log[k - 1].code \in {429, 500, 502, 503, 504}
    /\ s_pc \in {"loop", "done"}
    /\ s_pc = "loop" =>
         /\ ~s_result.returned
         /\ Len(s_log) = s_i
         /\ \A k \in 1..Len(s_log) :
              s_log[k].kind = "error" \/ s_log[k].code \in {429, 500, 502, 503, 504}
    /\ s_pc = "done" =>
         /\ s_result.returned
         /\ s_result.doc = Bs(LastResponseText(s_log))
         /\ Len(s_log) >= 1

\* three requests, the last two lost in transport: the body of the first is returned
C4_Witness ==
    /\ s_pc = "done" /\ Len(s_log) = 3
    /\ s_log[1].kind = "response" /\ s_log[1].text = "<a>"
    /\ s_log[2].kind = "error" /\ s_log[3].kind = "error"
    /\ s_result.doc = Bs("<a>")


-----------------------------------------------------------------------------
(* extract_title                                                           *)

\* "A".."Z" are Alphabet[14..39], "a".."z" are Alphabet[41..66]
LowerChar(c) == IF Ord[c] \in 14..39 THEN Alphabet[Ord[c] + 27] ELSE c
UpperChar(c) == IF Ord[c] \in 41..66 THEN Alphabet[Ord[c] - 27] ELSE c

\* str.lower()
Lower(s) == [i \in 1..Len(s) |-> LowerChar(s[i])]

\* str.capitalize()
Capitalize(w) ==
    IF w = <<>> THEN <<>> ELSE <<UpperChar(w[1])>> \o Lower(Tail(w))

BRAND == <<"c", "i", "n", "e", "m", "a", "t", "e", "k", "e", "t">>

\* re.sub(r"[-_]+", " ", seg), line 179
RECURSIVE SubRuns(_)
SubRuns(s) ==
    IF s = <<>> THEN <<>>
    ELSE IF s[1] \in {"-", "_"}
    THEN IF Len(s) > 1 /\ s[2] \in {"-", "_"} THEN SubRuns(Tail(s))
         ELSE <<" ">> \o SubRuns(Tail(s))
    ELSE <<s[1]>> \o SubRuns(Tail(s))

\* str.split(): the words between runs of white space
RECURSIVE Split(_, _)
Split(s, word) ==
    IF s = <<>> THEN (IF word = <<>> THEN <<>> ELSE <<word>>)
    ELSE IF s[1] = " "
    THEN (IF word = <<>> THEN <<>> ELSE <<word>>) \o Split(Tail(s), <<>>)
    ELSE Split(Tail(s), Append(word, s[1]))

\* " ".join(words)
RECURSIVE Join1(_)
Join1(ws) ==
    IF ws = <<>> THEN <<>>
    ELSE IF Len(ws) = 1 THEN ws[1]
    ELSE ws[1] \o <<" ">> \o Join1(Tail(ws))

TITEL == <<"T", "i", "t", "e", "l">>

\* lines 178-182, from the last segment of the path. The pattern of line 180
\* needs a "-" and line 179 has replaced every one, so line 180 changes nothing.
SlugTitle(seg) ==
    LET slug == Strip(SubRuns(seg))
        words == Split(slug, <<>>)
        capped == Join1([i \in 1..Len(words) |-> Capitalize(words[i])])
    IN IF capped = <<>> THEN TITEL ELSE capped

\* lines 137-139 and 143-145: a meta element (NoneV when the document has
\* none, else its content attribute)
MetaTitle(meta) ==
    IF meta # NoneV /\ meta[1] # <<>> /\ Lower(Strip(meta[1])) # BRAND
    THEN Some(Strip(meta[1])) ELSE NoneV

\* lines 148-162: the scripts in order; a script is "malformed" (json.loads
\* raises) or the list of the name fields of its object(s)
RECURSIVE FirstName(_)
FirstName(names) ==
    IF names = <<>> THEN NoneV
    ELSE IF Strip(names[1]) # <<>> /\ Lower(Strip(names[1])) # BRAND
    THEN Some(Strip(names[1]))
    ELSE FirstName(Tail(names))

RECURSIVE JsonLdTitle(_)
JsonLdTitle(scripts) ==
    IF scripts = <<>> THEN NoneV
    ELSE IF scripts[1] = <<"malformed">> THEN JsonLdTitle(Tail(scripts))
    ELSE IF FirstName(scripts[1]) # NoneV THEN FirstName(scripts[1])
    ELSE JsonLdTitle(Tail(scripts))

\* lines 164-168 and 172-174: an element (NoneV when absent, else its text);
\* get_text(strip=True) strips the text
TextTitle(el) ==
    IF el # NoneV /\ Strip(el[1]) # <<>> /\ Lower(Strip(el[1])) # BRAND
    THEN Some(Strip(el[1])) ELSE NoneV

\* the first of the optional values that is present
RECURSIVE FirstSome(_)
FirstSome(opts) ==
    IF opts = <<>> THEN NoneV
    ELSE IF opts[1] # NoneV THEN opts[1] ELSE FirstSome(Tail(opts))

extract_title(doc, seg) ==
    Get(FirstSome(<<MetaTitle(doc.og), MetaTitle(doc.tw), JsonLdTitle(doc.jsonld),
                    TextTitle(doc.h), TextTitle(doc.title)>>),
        SlugTitle(seg))

tCinemateket == <<"C", "i", "n", "e", "m", "a", "t", "e", "k", "e", "t">>
tCINEMATEKET == <<"C", "I", "N", "E", "M", "A", "T", "E", "K", "E", "T", " ">>
tStalker     == <<"S", "t", "a", "l", "k", "e", "r">>
tSolaris     == <<" ", "S", "o", "l", "a", "r", "i", "s">>
tMirror      == <<"M", "i", "r", "r", "o", "r">>
tBlank       == <<" ">>

Docs ==
    [og     : {NoneV, Some(<<>>), Some(tBlank), Some(tCinemateket), Some(tStalker)},
     tw     : {NoneV, Some(tCINEMATEKET), Some(tSolaris)},
     jsonld : {<<>>, << <<"malformed">> >>, << <<tCinemateket, tMirror>> >>,
               << <<"malformed">>, << <<>> >>, <<tSolaris>> >>},
     h      : {NoneV, Some(tBlank), Some(tCinemateket), Some(tStalker)},
     title  : {NoneV, Some(tCINEMATEKET), Some(tMirror)}]

\* last segments of the path of the page
Segments ==
    { <<>>,
      <<"s", "t", "a", "l", "k", "e", "r">>,
      <<"t", "h", "e", "-", "_", "m", "i", "r", "r", "o", "r", "-", "1", "9", "7", "5">>,
      <<"c", "i", "n", "e", "m", "a", "t", "e", "k", "e", "t">> }

InitTitle ==
    /\ t_pc = "call" /\ t_doc \in Docs /\ t_url \in Segments /\ t_result = <<>>
    /\ ProgIdle /\ SoupIdle /\ RegIdle

TitleCall ==
    /\ t_pc = "call"
    /\ t_result' = extract_title(t_doc, t_url)
    /\ t_pc' = "done"
    /\ UNCHANGED <<t_doc, t_url>>
    /\ UNCHANGED <<progVars, soupVars, regVars>>

NextTitle == TitleCall

SpecTitle == InitTitle /\ [][NextTitle]_vars

\* The value of a strategy as the claim reads it: the stripped text, absent
\* when there is none.
Value(opt) == IF opt = NoneV THEN NoneV ELSE Some(Strip(opt[1]))

Wins(v) == v # NoneV /\ v[1] # <<>> /\ Lower(v[1]) # BRAND

RECURSIVE FirstWinner(_)
FirstWinner(vs) ==
    IF vs = <<>> THEN NoneV
    ELSE IF Wins(vs[1]) THEN vs[1] ELSE FirstWinner(Tail(vs))

\* C8: the result is the value of the first strategy, in the order og:title,
\* twitter:title, JSON-LD name, h1/h2, title, URL slug, that is not empty and
\* not the brand name in any case; og:title "Cinemateket" with h1 "Stalker"
\* gives "Stalker"; the result is never empty.
C8_FirstAcceptableStrategy ==
    t_pc = "done" =>
        LET w == FirstWinner(<<Value(t_doc.og), Value(t_doc.tw), JsonLdTitle(t_doc.jsonld),
                               Value(t_doc.h), Value(t_doc.title), Some(SlugTitle(t_url))>>)
        IN /\ w # NoneV => t_result = w[1]
           /\ t_result # <<>>

\* the part of C8 that the code does satisfy: the example of the spec
C8_Example ==
    (t_pc = "done" /\ t_doc.og = Some(tCinemateket) /\ t_doc.tw = NoneV
        /\ t_doc.jsonld = <<>> /\ t_doc.h = Some(tStalker)) => t_result = tStalker


-----------------------------------------------------------------------------
(* build_series_registry                                                   *)

\* r_events is the sequence of what the function did to the origin site:
\* a page fetch (get_soup, with the page it asked for) or time.sleep(SLEEP_BETWEEN).
\* meta (intro and banner per series) is filled beside by_href and left out.
Fetch(what) == [kind |-> "fetch", what |-> what]
Sleep == [kind |-> "sleep", what |-> "SLEEP_BETWEEN"]

MaxAnchors == 2

SeriesUrls == {"serie/tarkovskij", "serie/bergman"}
ItemHrefs == {hStalker, hSolaris, hForeign}

\* by_href[ih] = sname for every ih of the sequence that is allowed, lines 239-242
RECURSIVE Register(_, _, _)
Register(reg, hrefs, sname) ==
    IF hrefs = <<>> THEN reg
    ELSE Register(IF allowed(hrefs[1])
                  THEN [h \in DOMAIN reg \cup {hrefs[1]} |->
                          IF h = hrefs[1] THEN sname ELSE reg[h]]
                  ELSE reg,
                  Tail(hrefs), sname)

InitRegistry ==
    /\ r_pc = "index" /\ r_todo = <<>> /\ r_seen = {}
    /\ r_by_href = <<>> /\ r_events = <<>> /\ r_path = "none"
    /\ ProgIdle /\ SoupIdle /\ TitleIdle

\* lines 220-222
RegIndex ==
    /\ r_pc = "index"
    /\ r_events' = Append(r_events, Fetch("index"))
    /\ r_todo' \in SeqsUpTo(SeriesUrls, MaxAnchors)
    /\ r_pc' = "primary"
    /\ UNCHANGED <<r_seen, r_by_href, r_path>>
    /\ UNCHANGED <<progVars, soupVars, titleVars>>

\* lines 223-245: one iteration of the loop over the series anchors
RegPrimaryIter ==
    /\ r_pc = "primary" /\ r_todo # <<>>
    /\ r_todo' = Tail(r_todo)
    /\ IF Head(r_todo) \in r_seen
       THEN /\ r_path' = "seen"
            /\ UNCHANGED <<r_seen, r_by_href, r_events>>
       ELSE /\ r_seen' = r_seen \cup {Head(r_todo)}
            /\ r_events' = r_events \o <<Fetch("series"), Sleep>>
            /\ \/ /\ r_path' = "series page read"
                  /\ \E items \in SeqsUpTo(ItemHrefs, 2), sname \in {sTarkovskij, sBergman} :
                        r_by_href' = Register(r_by_href, items, sname)
               \/ /\ r_path' = "exception"
                  /\ UNCHANGED r_by_href
    /\ UNCHANGED r_pc
    /\ UNCHANGED <<progVars, soupVars, titleVars>>

\* lines 247-256
RegPrimaryEnd ==
    /\ r_pc = "primary" /\ r_todo = <<>>
    /\ IF DOMAIN r_by_href # {}
       THEN /\ r_pc' = "done"
            /\ UNCHANGED <<r_todo, r_seen, r_events>>
       ELSE /\ r_events' = Append(r_events, Fetch("listing"))
            /\ r_todo' \in SeqsUpTo(ItemHrefs, MaxAnchors)
            /\ r_seen' = {}
            /\ r_pc' = "fallback"
    /\ UNCHANGED <<r_by_href, r_path>>
    /\ UNCHANGED <<progVars, soupVars, titleVars>>

\* lines 258-280: one iteration of the loop over the item anchors
RegFallbackIter ==
    /\ r_pc = "fallback" /\ r_todo # <<>>
    /\ r_todo' = Tail(r_todo)
    /\ IF ~allowed(Head(r_todo)) \/ Head(r_todo) \in r_seen
       THEN /\ r_path' = "seen"
            /\ UNCHANGED <<r_seen, r_by_href, r_events>>
       ELSE /\ r_seen' = r_seen \cup {Head(r_todo)}
            /\ \/ /\ r_path' = "no series link"
                  /\ r_events' = Append(r_events, Fetch("item"))
                  /\ UNCHANGED r_by_href
               \/ /\ r_path' = "exception"
                  /\ r_events' = r_events \o <<Fetch("item"), Sleep>>
                  /\ UNCHANGED r_by_href
               \/ /\ r_path' = "series page read"
                  /\ r_events' = r_events \o <<Fetch("item"), Fetch("series of item"), Sleep>>
                  /\ \E sname \in {sTarkovskij, sBergman} :
                        r_by_href' = Register(r_by_href, <<Head(r_todo)>>, sname)
               \/ /\ r_path' = "exception"
                  /\ r_events' = r_events \o <<Fetch("item"), Fetch("series of item"), Sleep>>
                  /\ UNCHANGED r_by_href
    /\ UNCHANGED r_pc
    /\ UNCHANGED <<progVars, soupVars, titleVars>>

\* lines 282-283
RegFallbackEnd ==
    /\ r_pc = "fallback" /\ r_todo = <<>>
    /\ r_pc' = "done"
    /\ UNCHANGED <<r_todo, r_seen, r_by_href, r_events, r_path>>
    /\ UNCHANGED <<progVars, soupVars, titleVars>>

NextRegistry ==
    RegIndex \/ RegPrimaryIter \/ RegPrimaryEnd \/ RegFallbackIter \/ RegFallbackEnd

SpecRegistry == InitRegistry /\ [][NextRegistry]_vars

\* the fetch with which an iteration of one of the two loops begins
OpensIteration(e) == e.kind = "fetch" /\ e.what \in {"series", "item"}

\* a fetch made in the body of one of the two loops
InLoop(e) == e.kind = "fetch" /\ e.what \in {"series", "item", "series of item"}

\* C9: in both strategies, on every path through the loop body, SLEEP_BETWEEN
\* passes between the last page fetch of one iteration and the first page fetch
\* of the next.
C9_DelayBetweenIterations ==
    \A k \in 2..Len(r_events) :
        OpensIteration(r_events[k]) => ~InLoop(r_events[k - 1])

\* the same within the primary strategy alone, where it holds
C9_PrimaryOnly ==
    \A k \in 2..Len(r_events) :
        (r_events[k] = Fetch("series")) => ~InLoop(r_events[k - 1])

=============================================================================
